---- MODULE Spec2Model ----
(***************************************************************************)
(* Model of src/app.py: a Streamlit chat room on top of two Firestore      *)
(* collections.  Every browser session re-runs the script top to bottom;   *)
(* st.session_state holds the per-session fields, the two collections and  *)
(* the st.cache_data entry of get_user_list are shared by all sessions of  *)
(* the process.                                                            *)
(*                                                                         *)
(* Strings typed by the user are sequences of one-character strings, so    *)
(* that Python truthiness (length > 0) and trimming are computed.          *)
(***************************************************************************)
EXTENDS Integers, Sequences, FiniteSets, TLC

VARIABLES
    secrets,        \* st.secrets["firebase_service_account"], as deployed
    apps,           \* firebase_admin._apps is non-empty
    user_id,        \* st.session_state.user_id, per session (NoId: key absent)
    display_name,   \* st.session_state.display_name
    avatar,         \* st.session_state.avatar
    chat_ready,     \* st.session_state.chat_ready
    pc,             \* where the session's script run is suspended
    Users,          \* documents of USERS_COLLECTION
    Messages,       \* documents of MESSAGES_COLLECTION
    serverClock,    \* the store's clock, source of SERVER_TIMESTAMP; it moves
                    \* on with every message it stamps
    nextUuid,       \* next value uuid.uuid4() yields
    cache,          \* the st.cache_data entry of get_user_list
    runner,         \* the session whose script ran in the step just taken
                    \* (NoSession: the step rendered nothing)
    users,          \* `users` of that run (line 193), <<>> on the login screen
    roster,         \* the members that run listed in the sidebar
    messages,       \* `messages` of that run (line 216), likewise
    shown           \* the st.error texts that step put on the page

vars == <<secrets, apps, user_id, display_name, avatar, chat_ready, pc, Users,
          Messages, serverClock, nextUuid, cache, runner, users, roster,
          messages, shown>>

\* the process: what the deployment and firebase_admin hold for all sessions
process == <<secrets, apps>>

session_state == <<user_id, display_name, avatar, chat_ready>>

-----------------------------------------------------------------------------
(* Bounds of the model *)

\* number of message commits the store's clock stamps
MaxClock == 2

\* the browser sessions, in the order in which they are opened
SessionOrder == <<"s1", "s2">>

Sessions == {SessionOrder[i] : i \in DOMAIN SessionOrder}

OpenedBefore(t, s) ==
    \E i, j \in DOMAIN SessionOrder :
        i < j /\ SessionOrder[i] = t /\ SessionOrder[j] = s

(* Program constants *)

\* @st.cache_data(ttl=60)
TTL == 60

\* how far the wall clock moves between two observed steps
TickSteps == {TTL - 1, TTL}

-----------------------------------------------------------------------------
(* Values *)

\* Python None in a string-valued field
None == <<"None">>

\* 'user_id' not in st.session_state
NoId == 0

\* a timestamp field the server has not resolved
NoTs == 0

NoAvatar == "None"

\* no session: the step just taken was no script run
NoSession == "none"

SPACE == " "

\* what st.secrets can hold under "firebase_service_account": nothing, an
\* empty string, a dict that is no service account, a service account
SecretKinds == {"missing", "empty", "invalid", "valid"}

\* what the user can submit in join_form: the Display Name typed and one of
\* the selectbox options
JoinForms ==
    { [display_name |-> <<>>, avatar |-> "star"],
      [display_name |-> <<SPACE, SPACE>>, avatar |-> "robot"],
      [display_name |-> <<"A">>, avatar |-> "star"] }

\* what st.chat_input can return: None (nothing submitted) or the text
Prompts == { None, <<>>, <<SPACE, SPACE, SPACE>>, <<"h", "i">> }

\* mutant: a test that every value passes
TruthyAlways(v) == TRUE

\* Python truthiness of an optional string
Truthy(v) == v # None /\ Len(v) > 0

RECURSIVE LStrip(_)
LStrip(str) ==
    IF str = <<>> THEN <<>>
    ELSE IF Head(str) = SPACE THEN LStrip(Tail(str)) ELSE str

RECURSIVE RStrip(_)
RStrip(str) ==
    IF str = <<>> THEN <<>>
    ELSE IF str[Len(str)] = SPACE THEN RStrip(SubSeq(str, 1, Len(str) - 1))
    ELSE str

\* str.strip()
Strip(str) == RStrip(LStrip(str))

Min(a, b) == IF a < b THEN a ELSE b

-----------------------------------------------------------------------------
(* The document store *)

\* mutant: a clock that lags one commit behind, so that a timestamp repeats
ClientTimestamp == IF serverClock > 1 THEN serverClock - 1 ELSE serverClock

\* firestore.SERVER_TIMESTAMP: the commit time, stamped by the server
SERVER_TIMESTAMP == serverClock

\* doc.to_dict() of a message document: the fields, without the document id
MsgToDict(d) ==
    [user_id |-> d.user_id, display_name |-> d.display_name,
     avatar |-> d.avatar, text |-> d.text, timestamp |-> d.timestamp]

\* user.to_dict() of a profile document
UserToDict(d) ==
    [user_id |-> d.user_id, display_name |-> d.display_name,
     avatar |-> d.avatar, joined_at |-> d.joined_at]

\* mutant: direction=DESCENDING
TimestampAfter(a, b) ==
    \/ a.timestamp > b.timestamp
    \/ a.timestamp = b.timestamp /\ a.id > b.id

\* order of a query ordered by "timestamp": the field, then the document id
TimestampBefore(a, b) ==
    \/ a.timestamp < b.timestamp
    \/ a.timestamp = b.timestamp /\ a.id < b.id

\* .stream() of a collection without an order: by document id
RECURSIVE StreamById(_)
StreamById(docs) ==
    IF docs = {} THEN <<>>
    ELSE LET first == CHOOSE x \in docs : \A y \in docs : x.id <= y.id
         IN  <<first>> \o StreamById(docs \ {first})

\* mutant: the query without its order_by
OrderByTimestampDropped(docs) == StreamById(docs)

\* .order_by("timestamp", direction=ASCENDING).stream()
RECURSIVE OrderByTimestamp(_)
OrderByTimestamp(docs) ==
    IF docs = {} THEN <<>>
    ELSE LET first == CHOOSE x \in docs :
                        \A y \in docs : x = y \/ TimestampBefore(x, y)
         IN  <<first>> \o OrderByTimestamp(docs \ {first})

\* mutant: set() without the document being replaced (a second document)
SetMergeAdd(coll, id, data) ==
    coll \cup {[f \in {"id"} \cup DOMAIN data |->
                  IF f = "id" THEN id ELSE data[f]]}

\* document(id).set(data, merge=True): the fields given replace the stored
\* ones, the document is created when absent
SetMerge(coll, id, data) ==
    LET old == {d \in coll : d.id = id}
        new == [f \in {"id"} \cup DOMAIN data |->
                   IF f = "id" THEN id ELSE data[f]]
    IN  (coll \ old) \cup
        { IF old = {} THEN new
          ELSE LET o == CHOOSE d \in old : TRUE
               IN  [f \in DOMAIN o \cup DOMAIN new |->
                       IF f \in DOMAIN new THEN new[f] ELSE o[f]] }

-----------------------------------------------------------------------------
(* Helper functions of the script *)

\* mutant: no check of the timestamp
HasValidTimestampAny(msg) == TRUE

\* `'timestamp' in msg and msg['timestamp']`
HasValidTimestamp(msg) == msg.timestamp # NoTs

RECURSIVE SelectValid(_)
SelectValid(docs) ==
    IF docs = <<>> THEN <<>>
    ELSE LET msg == MsgToDict(Head(docs))
         IN  (IF HasValidTimestamp(msg) THEN <<msg>> ELSE <<>>)
             \o SelectValid(Tail(docs))

\* load_messages(): ok is whether the read of the store succeeds
load_messages(ok) ==
    IF ok THEN SelectValid(OrderByTimestamp(Messages)) ELSE <<>>

\* the body of get_user_list(), run on a cache miss
FetchUsers(ok) ==
    IF ok
    THEN LET docs == StreamById(Users)
         IN  [i \in 1..Len(docs) |-> UserToDict(docs[i])]
    ELSE <<>>

\* mutant: no caching
CacheFreshNever == FALSE

\* mutant: no ttl
CacheFreshForever == cache.valid

\* st.cache_data(ttl=60): the entry is served while younger than its ttl
CacheFresh == cache.valid /\ cache.age < TTL

\* the value a get_user_list() call returns
get_user_list(ok) == IF CacheFresh THEN cache.value ELSE FetchUsers(ok)

\* the cache entry after a get_user_list() call: whatever the body returned
\* is stored, the empty list of the except branch included
CacheAfter(ok) ==
    IF CacheFresh THEN cache
    ELSE [valid |-> TRUE, value |-> FetchUsers(ok), age |-> 0]

\* mutant: init_firebase() without its checks and st.stop() calls
InitFirebaseUnchecked == TRUE

\* init_firebase() returns a client: the app was initialised by an earlier
\* run of the process (line 20), or the credentials load (lines 24-76)
InitFirebaseOk == apps \/ secrets = "valid"

\* the st.error of the branch of init_firebase() that stops the script
StartupError ==
    IF secrets = "missing" THEN "Firebase secrets not found."
    ELSE IF secrets = "empty" THEN "Firebase secret is an empty string."
    ELSE "Firebase initialization failed."

\* mutant: the sidebar without the test of line 200
RosterUnfiltered(s, us) == us

\* lines 198-201: the sidebar lists the users other than the session's own
Roster(s, us) == SelectSeq(us, LAMBDA u : u.user_id # user_id[s])

\* line 149: which screen the script renders
ChatScreen(s) == chat_ready[s]

\* line 241, negated: the guard of the send
MaySend(s) == chat_ready[s] /\ Truthy(display_name[s])

\* the message writes still awaited by some session
InFlight == Cardinality({s \in Sessions : pc[s] = "sending"})

\* what the step just taken put on the page of session s
Rendered(s, us, ms, errs) ==
    /\ runner' = s
    /\ users' = us
    /\ roster' = Roster(s, us)
    /\ messages' = ms
    /\ shown' = errs

\* the step just taken rendered nothing
Quiet ==
    /\ runner' = NoSession
    /\ users' = <<>>
    /\ roster' = <<>>
    /\ messages' = <<>>
    /\ shown' = {}

-----------------------------------------------------------------------------
Init ==
    /\ secrets \in SecretKinds
    /\ apps = FALSE
    /\ user_id = [s \in Sessions |-> NoId]
    /\ display_name = [s \in Sessions |-> None]
    /\ avatar = [s \in Sessions |-> NoAvatar]
    /\ chat_ready = [s \in Sessions |-> FALSE]
    /\ pc = [s \in Sessions |-> "closed"]
    /\ Users = {}
    /\ Messages = {}
    /\ serverClock = 1
    /\ nextUuid = 1
    /\ cache = [valid |-> FALSE, value |-> <<>>, age |-> 0]
    /\ runner = NoSession
    /\ users = <<>>
    /\ roster = <<>>
    /\ messages = <<>>
    /\ shown = {}

\* a script run that init_firebase() stops (lines 26, 45, 51, 56, 61, 83, 87,
\* 101): st.stop() ends the run before line 105
StartupFail(s) ==
    /\ pc[s] \in {"closed", "halted"}
    /\ \A t \in Sessions : OpenedBefore(t, s) => pc[t] # "closed"
    /\ ~InitFirebaseOk
    /\ pc' = [pc EXCEPT ![s] = "halted"]
    /\ Rendered(s, <<>>, <<>>, {StartupError})
    /\ UNCHANGED <<process, session_state, Users, Messages, serverClock,
                   nextUuid, cache>>

\* mutant: an id generator that repeats the id it returned last
uuid4Repeated == IF nextUuid > 1 THEN nextUuid - 1 ELSE nextUuid

\* uuid.uuid4() at line 106: an id no earlier call has returned
uuid4 == nextUuid

\* first script run of a new browser session: lines 97-112, login screen
FirstLoad(s) ==
    /\ pc[s] = "closed"
    /\ \A t \in Sessions : OpenedBefore(t, s) => pc[t] # "closed"
    /\ InitFirebaseOk
    /\ apps' = TRUE
    /\ UNCHANGED secrets
    /\ user_id' = [user_id EXCEPT ![s] = uuid4]
    /\ nextUuid' = nextUuid + 1
    /\ display_name' = [display_name EXCEPT ![s] = None]
    /\ avatar' = [avatar EXCEPT ![s] = NoAvatar]
    /\ chat_ready' = [chat_ready EXCEPT ![s] = FALSE]
    /\ pc' = [pc EXCEPT ![s] = "idle"]
    /\ Rendered(s, <<>>, <<>>, {})
    /\ UNCHANGED <<Users, Messages, serverClock, cache>>

\* script run with the join form submitted: lines 159-177, up to the point
\* where the profile write is awaited
JoinSubmit(s, form) ==
    /\ pc[s] = "idle"
    /\ ~ChatScreen(s)
    /\ IF ~Truthy(form.display_name)
       THEN /\ Rendered(s, <<>>, <<>>, {"Please enter a display name."})
            /\ UNCHANGED <<display_name, avatar, chat_ready, pc>>
       ELSE /\ display_name' = [display_name EXCEPT ![s] = form.display_name]
            /\ avatar' = [avatar EXCEPT ![s] = form.avatar]
            /\ chat_ready' = [chat_ready EXCEPT ![s] = TRUE]
            /\ pc' = [pc EXCEPT ![s] = "joining"]
            /\ Rendered(s, <<>>, <<>>, {})
    /\ UNCHANGED <<process, user_id, Users, Messages, serverClock, nextUuid,
                   cache>>

\* mutant: the profile stored under a newly generated id
ProfileKeyFresh(s) == nextUuid

\* line 171: the profile document is named by the session's user_id
ProfileKey(s) == user_id[s]

\* mutant: a join that writes no profile
ProfileWriteSkipped(s) == Users

\* the profile document written at lines 171-177
ProfileWrite(s) ==
    SetMerge(Users, ProfileKey(s),
             [user_id |-> user_id[s], display_name |-> display_name[s],
              avatar |-> avatar[s], joined_at |-> SERVER_TIMESTAMP])

\* the profile write returns: line 178, st.rerun()
JoinCommit(s) ==
    /\ pc[s] = "joining"
    /\ Users' = ProfileWrite(s)
    /\ pc' = [pc EXCEPT ![s] = "rerun"]
    /\ Quiet
    /\ UNCHANGED <<process, session_state, Messages, serverClock, nextUuid,
                   cache>>

\* mutant: the except branch without line 182
JoinRollbackMissing(s) == chat_ready

\* the session state after the except branch at lines 179-182
JoinRollback(s) == [chat_ready EXCEPT ![s] = FALSE]

\* the profile write raises: lines 179-182.  applied: the store committed the
\* write although the call raised (the answer was lost)
JoinFail(s, applied) ==
    /\ pc[s] = "joining"
    /\ Users' = IF applied THEN ProfileWrite(s) ELSE Users
    /\ chat_ready' = JoinRollback(s)
    /\ Rendered(s, <<>>, <<>>, {"Failed to save user profile."})
    /\ pc' = [pc EXCEPT ![s] = "idle"]
    /\ UNCHANGED <<process, user_id, display_name, avatar, Messages,
                   serverClock, nextUuid, cache>>

\* collection.document(): an auto-generated id, one no document has
AutoId == CHOOSE i \in 1..(Cardinality(Messages) + 1) :
              \A d \in Messages : d.id # i

\* the message document written at lines 246-253, before the server has
\* stamped it
MessageWrite(s, prompt) ==
    [id |-> AutoId, user_id |-> user_id[s],
     display_name |-> display_name[s], avatar |-> avatar[s],
     text |-> prompt, timestamp |-> NoTs]

\* mutant: the except branches of the two reads without their st.error
RunErrorsUnreported(s, prompt, usersOk, msgsOk) ==
    IF Truthy(prompt) /\ ~MaySend(s)
    THEN {"You must join the chat to send messages."} ELSE {}

\* the st.error texts of a chat-screen run
RunErrors(s, prompt, usersOk, msgsOk) ==
    (IF ~CacheFresh /\ ~usersOk THEN {"Error fetching user list"} ELSE {})
    \cup (IF ~msgsOk THEN {"Error loading messages"} ELSE {})
    \cup (IF Truthy(prompt) /\ ~MaySend(s)
          THEN {"You must join the chat to send messages."} ELSE {})

\* a script run without a form submission: the timer of st_autorefresh, the
\* rerun after a join, or a chat_input submission (prompt).  Login screen
\* when not chat_ready (lines 149-157: no chat_input, no read of the store),
\* else lines 186-253 up to the point where the message write is awaited.
\* usersOk, msgsOk: whether the reads of the two collections succeed (the
\* Users collection is read only on a cache miss)
Run(s, prompt, usersOk, msgsOk) ==
    /\ pc[s] \in {"idle", "rerun"}
    /\ pc[s] = "rerun" => prompt = None
    /\ IF ~ChatScreen(s)
       THEN /\ prompt = None /\ usersOk /\ msgsOk
            /\ Rendered(s, <<>>, <<>>, {})
            /\ UNCHANGED <<pc, Messages, cache>>
       ELSE /\ CacheFresh => usersOk
            /\ Rendered(s, get_user_list(usersOk), load_messages(msgsOk),
                        RunErrors(s, prompt, usersOk, msgsOk))
            /\ cache' = CacheAfter(usersOk)
            /\ IF Truthy(prompt) /\ MaySend(s)
               THEN /\ serverClock + InFlight <= MaxClock
                    /\ Messages' = Messages \cup {MessageWrite(s, prompt)}
                    /\ pc' = [pc EXCEPT ![s] = "sending"]
               ELSE /\ pc' = [pc EXCEPT ![s] = "idle"]
                    /\ UNCHANGED <<Messages>>
    /\ UNCHANGED <<process, session_state, Users, serverClock, nextUuid>>

\* the document of the send the session awaits
Pending(s) ==
    CHOOSE d \in Messages : d.user_id = user_id[s] /\ d.timestamp = NoTs

\* the message write returns: the server has stamped the document
SendCommit(s) ==
    /\ pc[s] = "sending"
    /\ Messages' = (Messages \ {Pending(s)}) \cup
                   {[Pending(s) EXCEPT !.timestamp = SERVER_TIMESTAMP]}
    /\ serverClock' = serverClock + 1
    /\ pc' = [pc EXCEPT ![s] = "idle"]
    /\ Quiet
    /\ UNCHANGED <<process, session_state, Users, nextUuid, cache>>

\* mutant: a write the store refused leaves a stamped document behind
RefusedStamped(s) ==
    (Messages \ {Pending(s)}) \cup
        {[Pending(s) EXCEPT !.timestamp = SERVER_TIMESTAMP]}

\* the collection after a write the store refused: the document of the send
\* was never created
Refused(s) == Messages \ {Pending(s)}

\* the message write raises: lines 255-257.  applied as in JoinFail
SendFail(s, applied) ==
    /\ pc[s] = "sending"
    /\ IF applied
       THEN /\ Messages' = (Messages \ {Pending(s)}) \cup
                   {[Pending(s) EXCEPT !.timestamp = SERVER_TIMESTAMP]}
            /\ serverClock' = serverClock + 1
       ELSE /\ Messages' = Refused(s)
            /\ UNCHANGED serverClock
    /\ Rendered(s, <<>>, <<>>, {"Failed to send message."})
    /\ pc' = [pc EXCEPT ![s] = "idle"]
    /\ UNCHANGED <<process, session_state, Users, nextUuid, cache>>

\* time passes: the cache entry ages (an entry past its ttl stays expired)
Tick(d) ==
    /\ cache.valid
    /\ cache.age < TTL
    /\ cache' = [cache EXCEPT !.age = Min(cache.age + d, TTL)]
    /\ Quiet
    /\ UNCHANGED <<process, session_state, pc, Users, Messages, serverClock,
                   nextUuid>>

Next ==
    \/ \E s \in Sessions : StartupFail(s)
    \/ \E s \in Sessions : FirstLoad(s)
    \/ \E s \in Sessions, form \in JoinForms : JoinSubmit(s, form)
    \/ \E s \in Sessions : JoinCommit(s)
    \/ \E s \in Sessions, applied \in BOOLEAN : JoinFail(s, applied)
    \/ \E s \in Sessions, prompt \in Prompts, usersOk, msgsOk \in BOOLEAN :
          Run(s, prompt, usersOk, msgsOk)
    \/ \E s \in Sessions : SendCommit(s)
    \/ \E s \in Sessions, applied \in BOOLEAN : SendFail(s, applied)
    \/ \E d \in TickSteps : Tick(d)

Spec == Init /\ [][Next]_vars

\* mutant: the chat screen without st_autorefresh
TimerOff(s) == FALSE

\* st_autorefresh(interval=3000) at line 210: the timer reruns the script of
\* a session on the chat screen (the reads of that run succeed)
TimerRun(s) == ChatScreen(s) /\ Run(s, None, TRUE, TRUE)

\* the write a send awaits at lines 247-253 returns or raises
WriteReturns(s) ==
    SendCommit(s) \/ \E applied \in BOOLEAN : SendFail(s, applied)

\* the steps of the program while the reads of the store succeed
NextReadsOk ==
    \/ \E s \in Sessions : StartupFail(s)
    \/ \E s \in Sessions : FirstLoad(s)
    \/ \E s \in Sessions, form \in JoinForms : JoinSubmit(s, form)
    \/ \E s \in Sessions : JoinCommit(s)
    \/ \E s \in Sessions, applied \in BOOLEAN : JoinFail(s, applied)
    \/ \E s \in Sessions, prompt \in Prompts : Run(s, prompt, TRUE, TRUE)
    \/ \E s \in Sessions : SendCommit(s)
    \/ \E s \in Sessions, applied \in BOOLEAN : SendFail(s, applied)
    \/ \E d \in TickSteps : Tick(d)

\* the reads succeed, the timer fires while the session stays at rest, and
\* no write is awaited forever
LiveSpec ==
    /\ Init
    /\ [][NextReadsOk]_vars
    /\ \A s \in Sessions : WF_vars(TimerRun(s))
    /\ \A s \in Sessions : WF_vars(WriteReturns(s))

-----------------------------------------------------------------------------
(* Vocabulary of the properties *)

SeqToSet(q) == {q[i] : i \in 1..Len(q)}

\* every message document has its server timestamp: no send is in flight
AllCommitted == \A d \in Messages : d.timestamp # NoTs

\* the step is a chat-screen script run of session s: of the steps that
\* render a page of s, the only one taken at rest with chat_ready set
ChatRunStep(s) ==
    /\ runner' = s
    /\ ChatScreen(s)
    /\ pc[s] \in {"idle", "rerun"}

\* ... whose list() succeeds: load_messages reports no error
ListStep(s) ==
    /\ ChatRunStep(s)
    /\ "Error loading messages" \notin shown'

\* ... whose users() call fails to read the Users collection
UsersFailStep(s) ==
    /\ ChatRunStep(s)
    /\ "Error fetching user list" \in shown'

\* ... whose users() call reads the Users collection, if at all, with success
UsersOkStep(s) ==
    /\ ChatRunStep(s)
    /\ "Error fetching user list" \notin shown'

\* the step commits a profile write of session s to the store
JoinApplied(s) == JoinCommit(s) \/ JoinFail(s, TRUE)

\* the Room Controller state Joined: the join has gone through
Joined(s) ==
    /\ chat_ready[s]
    /\ pc[s] # "joining"
    /\ \E u \in Users : u.user_id = user_id[s]

\* the entry is younger than 60 time units
YoungerThanTtl == cache.valid /\ cache.age < 60

\* sequence p is a prefix of sequence q
IsPrefix(p, q) == Len(p) <= Len(q) /\ SubSeq(q, 1, Len(p)) = p

\* the committed Message Records, as list() reports them
Stored == {MsgToDict(d) : d \in {e \in Messages : e.timestamp # NoTs}}

\* the page of session t, rendered in the step just taken, lists every
\* committed Message Record
InSync(t) == runner = t /\ SeqToSet(messages) = Stored

\* the step is the except branch of a send of s whose write the store
\* refused (the store's clock has stamped nothing)
SendRefusedStep(s) ==
    /\ pc[s] = "sending"
    /\ runner' = s
    /\ serverClock' = serverClock

-----------------------------------------------------------------------------
(* C1: once every send has committed, a successful list() by any client    *)
(* returns each message exactly once, in non-decreasing order of the       *)
(* server timestamps.                                                      *)
C1_ListAfterCommits ==
    [][\A s \in Sessions :
          (ListStep(s) /\ AllCommitted) =>
             /\ Len(messages') = Cardinality(Messages)
             /\ \A d \in Messages :
                   Cardinality({i \in 1..Len(messages') :
                                   messages'[i] = MsgToDict(d)}) = 1
             /\ \A i, j \in 1..Len(messages') :
                   i < j => messages'[i].timestamp <= messages'[j].timestamp
      ]_vars

\* two clients' sends overlapped (the document created first was stamped
\* last) and a list() has returned both
C1_Witness ==
    /\ runner # NoSession
    /\ Len(messages) = 2
    /\ \E a, b \in Messages :
          /\ a.id < b.id
          /\ a.user_id # b.user_id
          /\ b.timestamp # NoTs
          /\ a.timestamp > b.timestamp

(* C2: no list() ever returns a record whose timestamp is missing or       *)
(* unresolved, also while sends of other clients are in flight.            *)
C2_NoUnresolvedListed ==
    \A i \in 1..Len(messages) : messages[i].timestamp # NoTs

\* a client has listed a message while another client's send is in flight
C2_Witness ==
    /\ runner # NoSession
    /\ Len(messages) >= 1
    /\ \E d \in Messages :
          d.timestamp = NoTs /\ d.user_id # user_id[runner]

(* C3: the Users collection never holds two profile records of one userId, *)
(* and a join write that goes through leaves the one record of the         *)
(* session's userId carrying the displayName and avatar of that join.      *)
C3_OneProfilePerUser ==
    [][/\ \A u1, u2 \in Users' : u1.user_id = u2.user_id => u1 = u2
       /\ \A s \in Sessions :
             JoinApplied(s) =>
                \E u \in Users' :
                   /\ u.user_id = user_id[s]
                   /\ u.display_name = display_name[s]
                   /\ u.avatar = avatar[s]
      ]_vars

\* a session's join has gone through a second time with other values: a
\* roster snapshot still shows the first ones, the store has the latest
C3_Witness ==
    \E s \in Sessions :
       /\ pc[s] = "rerun"
       /\ \E i \in 1..Len(cache.value) :
             /\ cache.value[i].user_id = user_id[s]
             /\ cache.value[i].display_name # display_name[s]
       /\ \E u \in Users :
             /\ u.user_id = user_id[s]
             /\ u.display_name = display_name[s]
             /\ u.avatar = avatar[s]

(* C4: a send whose text is empty or only whitespace is rejected locally:  *)
(* the script run leaves the Messages collection as it is.                 *)
C4_BlankSendRejected ==
    [][\A s \in Sessions, prompt \in Prompts \ {None},
          usersOk, msgsOk \in BOOLEAN :
          (Strip(prompt) = <<>> /\ runner' = s
                                /\ Run(s, prompt, usersOk, msgsOk)) =>
             /\ Messages' = Messages
             /\ pc'[s] # "sending"
      ]_vars

(* C5: a join whose displayName is empty after trimming is rejected before *)
(* any store interaction: no profile write is started, the Users           *)
(* collection is unchanged and the session stays NotJoined.                *)
C5_BlankJoinRejected ==
    [][\A s \in Sessions, form \in JoinForms :
          (Strip(form.display_name) = <<>> /\ JoinSubmit(s, form)) =>
             /\ Users' = Users
             /\ pc'[s] # "joining"
             /\ ~chat_ready'[s]
      ]_vars

(* C6: when the profile write of a join fails the session ends the attempt *)
(* NotJoined with its userId unchanged, the userId never changes later,    *)
(* and every join write of the session goes to the profile record of that  *)
(* userId.                                                                 *)
C6_FailedJoinKeepsIdentity ==
    [][\A s \in Sessions :
          /\ (\E applied \in BOOLEAN : JoinFail(s, applied)) =>
                ~chat_ready'[s] /\ pc'[s] = "idle"
          /\ user_id[s] # NoId => user_id'[s] = user_id[s]
          /\ JoinApplied(s) =>
                /\ \A u \in Users' \ Users :
                      u.id = user_id[s] /\ u.user_id = user_id[s]
                /\ \A u \in Users \ Users' : u.id = user_id[s]
                /\ \E u \in Users' : u.id = user_id[s]
      ]_vars

\* a join attempt has just failed: the session is back on the login screen
\* with the identity it had
C6_Witness ==
    \E s \in Sessions :
       /\ runner = s
       /\ "Failed to save user profile." \in shown
       /\ ~chat_ready[s]
       /\ user_id[s] # NoId
       /\ display_name[s] # None

(* C7: a script run of a session that is NotJoined writes no Message       *)
(* Record, and every Message Record is created by a session that is Joined *)
(* with a non-empty displayName, which the record carries.                 *)
C7_SendOnlyWhenJoined ==
    [][/\ \A s \in Sessions :
             (~Joined(s) /\ runner' = s) => Messages' = Messages
       /\ \A d \in Messages' :
             (\A e \in Messages : e.id # d.id) =>
                \E s \in Sessions :
                   /\ Joined(s)
                   /\ d.user_id = user_id[s]
                   /\ d.display_name = display_name[s]
                   /\ Len(d.display_name) > 0
      ]_vars

\* a Joined session has a send in flight while another session, not
\* Joined, has just had its script run
C7_Witness ==
    \E s, t \in Sessions :
       /\ pc[s] = "sending"
       /\ \E d \in Messages : d.user_id = user_id[s] /\ d.timestamp = NoTs
       /\ runner = t
       /\ ~chat_ready[t]

(* C8: when a roster refresh fails to read the Users collection, the       *)
(* previously cached non-empty snapshot stays in place and is what the     *)
(* call returns.                                                           *)
C8_FailedRefreshKeepsSnapshot ==
    [][\A s \in Sessions :
          (/\ cache.valid
           /\ ~YoungerThanTtl
           /\ cache.value # <<>>
           /\ UsersFailStep(s)) =>
             /\ users' = cache.value
             /\ cache'.value = cache.value
      ]_vars

(* C9: a users() call made less than 60 time units after the prior refresh *)
(* returns exactly the data of that refresh and leaves the cache alone, in *)
(* every session, whatever has been written to the Users collection since. *)
C9_YoungCacheServed ==
    [][\A s \in Sessions :
          (YoungerThanTtl /\ ChatRunStep(s)) =>
             /\ users' = cache.value
             /\ cache' = cache
      ]_vars

\* a call 59 time units after the refresh has returned the snapshot, which
\* the Users collection no longer matches
C9_Witness ==
    /\ runner # NoSession
    /\ cache.age = 59
    /\ users # <<>>
    /\ users = cache.value
    /\ SeqToSet(users) # {UserToDict(d) : d \in Users}

C11_FailedSendNotListed ==
    [][/\ \A s \in Sessions :
             SendRefusedStep(s) =>
                /\ "Failed to send message." \in shown'
                /\ Joined(s) /\ chat_ready'[s] /\ pc'[s] = "idle"
                /\ user_id'[s] = user_id[s]
                /\ display_name'[s] = display_name[s]
                /\ avatar'[s] = avatar[s]
                /\ \A d \in Messages' : d.id # Pending(s).id
                /\ Users' = Users
       /\ \A t \in Sessions :
             ListStep(t) => SeqToSet(messages') \subseteq Stored
      ]_vars

\* a send of a Joined session has just failed while the collection holds a
\* committed message of another session: the failed one is not stored
C11_Witness ==
    \E s \in Sessions :
       /\ runner = s
       /\ "Failed to send message." \in shown
       /\ chat_ready[s]
       /\ Messages # {}
       /\ \A d \in Messages : d.user_id # user_id[s] /\ d.timestamp # NoTs

(* C12: when the read of the Messages collection fails in a script run of  *)
(* a Joined session, list() returns the empty sequence and the failure is  *)
(* reported; the run goes on to its end (roster rendered, session state    *)
(* untouched, the session at rest or awaiting the send of that run, so the *)
(* timer fires again), and every run whose read succeeds shows exactly the *)
(* committed messages of the collection.                                   *)
C12_FailedListDegrades ==
    [][/\ \A s \in Sessions :
             (runner' = s /\ ChatScreen(s)) =>
                \A prompt \in Prompts, usersOk \in BOOLEAN :
                   Run(s, prompt, usersOk, FALSE) =>
                      /\ messages' = <<>>
                      /\ "Error loading messages" \in shown'
                      /\ users' = get_user_list(usersOk)
                      /\ session_state' = session_state
                      /\ Joined(s)
                      /\ pc'[s] = IF Truthy(prompt) THEN "sending" ELSE "idle"
       /\ \A t \in Sessions :
             ListStep(t) =>
                /\ SeqToSet(messages') = Stored
                /\ Len(messages') = Cardinality(Stored)
      ]_vars

\* a poll of a Joined session has just failed to read the collection, which
\* holds a committed message: the page shows the error and no message, and
\* the session is at rest
C12_Witness ==
    \E s \in Sessions :
       /\ runner = s
       /\ "Error loading messages" \in shown
       /\ messages = <<>>
       /\ Stored # {}
       /\ chat_ready[s]
       /\ pc[s] = "idle"

(* C13: the userId of a session is generated at the first load of that     *)
(* session and only there, no later step of any kind changes it, and two   *)
(* distinct sessions never hold the same userId.                           *)
C13_UserIdGeneratedOnce ==
    [][\A s \in Sessions :
          /\ user_id[s] # NoId => user_id'[s] = user_id[s]
          /\ user_id'[s] # user_id[s] => pc[s] = "closed" /\ runner' = s
          /\ (pc[s] = "closed" /\ pc'[s] = "idle") => user_id'[s] # NoId
          /\ \A t \in Sessions \ {s} :
                user_id'[s] # NoId => user_id'[s] # user_id'[t]
      ]_vars

\* both sessions have been loaded; one has joined and sent a message, the
\* other has submitted a join and has just had a script run
C13_Witness ==
    \E s, t \in Sessions :
       /\ s # t
       /\ user_id[s] # NoId /\ user_id[t] # NoId
       /\ user_id[s] # user_id[t]
       /\ \E d \in Messages :
             d.user_id = user_id[s] /\ d.timestamp # NoTs
       /\ runner = t
       /\ display_name[t] # None

(* C14: a send is stamped when it commits, later than every send that has  *)
(* committed before, so a send issued after another has committed gets the *)
(* later timestamp; a successful list() is in strictly increasing order of *)
(* the timestamps, hence shows the earlier of two such messages first; and *)
(* a Message Record carries the userId, displayName and avatar its sender  *)
(* had when the send was issued, from its creation on.                     *)
C14_CommittedBeforeIssued ==
    [][/\ serverClock' >= serverClock
       /\ \A d \in Messages' \ Messages :
             IF d.timestamp = NoTs
             THEN /\ \A e \in Messages : e.id # d.id
                  /\ \A e \in Messages : e.timestamp < serverClock
                  /\ \E s \in Sessions :
                        /\ runner' = s
                        /\ d.user_id = user_id[s]
                        /\ d.display_name = display_name[s]
                        /\ d.avatar = avatar[s]
             ELSE /\ d.timestamp >= serverClock
                  /\ [d EXCEPT !.timestamp = NoTs] \in Messages
                  /\ \A e \in Messages : e.timestamp < d.timestamp
       /\ \A e \in Messages : e.timestamp # NoTs => e \in Messages'
       /\ \A t \in Sessions :
             ListStep(t) =>
                \A i, j \in 1..Len(messages') :
                   i < j => messages'[i].timestamp < messages'[j].timestamp
      ]_vars

\* a session issues a send in a script run whose list shows the committed
\* message of another session, attributed to that session
C14_Witness ==
    \E s, t \in Sessions :
       /\ s # t
       /\ runner = t
       /\ pc[t] = "sending"
       /\ \E d \in Messages : d.user_id = user_id[t] /\ d.timestamp = NoTs
       /\ Len(messages) = 1
       /\ messages[1].user_id = user_id[s]
       /\ messages[1].display_name = display_name[s]
       /\ messages[1].avatar = avatar[s]

(* C15: the list rendered by the script run that issues a send does not    *)
(* hold the message of that send, and the return of the write renders no   *)
(* list and asks for no rerun; with the timer firing and reads succeeding, *)
(* every committed message is eventually listed on the page of every       *)
(* Joined session.                                                         *)
C15_SentShownAtLaterTick ==
    /\ [][\A s \in Sessions :
             /\ (pc[s] # "sending" /\ pc'[s] = "sending") =>
                   /\ runner' = s
                   /\ \A d \in Messages' \ Messages :
                         \A i \in 1..Len(messages') :
                            messages'[i] # MsgToDict(d)
                   /\ SeqToSet(messages') \subseteq Stored
             /\ (pc[s] = "sending" /\ pc'[s] # "sending") =>
                   /\ pc'[s] = "idle"
                   /\ messages' = <<>>
         ]_vars
    /\ \A t \in Sessions : Joined(t) ~> InSync(t)

\* the message a session sent is listed on the page of the other session,
\* which has sent none
C15_Witness ==
    \E t \in Sessions :
       /\ InSync(t)
       /\ messages # <<>>
       /\ \A d \in Messages : d.user_id # user_id[t]

(* C16: the roster a chat-screen run renders holds the entries of the      *)
(* snapshot returned by users() other than the session's own, and never    *)
(* the own one, while the snapshot returned is the cached one and keeps    *)
(* every entry, the own one included.                                      *)
C16_RosterExcludesSelf ==
    [][\A s \in Sessions :
          ChatRunStep(s) =>
             /\ \A i \in 1..Len(roster') : roster'[i].user_id # user_id[s]
             /\ SeqToSet(roster') =
                   {u \in SeqToSet(users') : u.user_id # user_id[s]}
             /\ users' = cache'.value
             /\ CacheFresh => cache'.value = cache.value
             /\ ~CacheFresh /\ "Error fetching user list" \notin shown' =>
                   SeqToSet(cache'.value) = {UserToDict(d) : d \in Users}
      ]_vars

\* a run of a Joined session was served a snapshot that holds its own entry
\* and that of the other session: its roster shows the other one alone
C16_Witness ==
    \E s \in Sessions :
       /\ runner = s
       /\ chat_ready[s]
       /\ users = cache.value
       /\ \E i \in 1..Len(users) : users[i].user_id = user_id[s]
       /\ Len(roster) = 1
       /\ Len(users) = 2

(* C17: when the credentials of the deployment do not load, every script   *)
(* run stops in init_firebase(): no session gets a userId or leaves the    *)
(* startup, the app is never initialised, nothing is written to the two    *)
(* collections, no roster is fetched or cached and no list is rendered.    *)
C17_StartupFailureHalts ==
    secrets # "valid" =>
       /\ ~apps
       /\ \A s \in Sessions :
             /\ user_id[s] = NoId
             /\ ~chat_ready[s]
             /\ pc[s] \in {"closed", "halted"}
       /\ Users = {} /\ Messages = {}
       /\ ~cache.valid
       /\ users = <<>> /\ roster = <<>> /\ messages = <<>>
       /\ shown \subseteq {StartupError}

\* both sessions have been opened with no credentials deployed: each run
\* has stopped with the error of line 25
C17_Witness ==
    /\ secrets = "missing"
    /\ \A s \in Sessions : pc[s] = "halted"
    /\ runner # NoSession
    /\ shown = {"Firebase secrets not found."}

(* C18: a script run the timer triggers (chat_input returns None) only     *)
(* reads: it leaves the Messages collection, the Users collection and the  *)
(* session's userId, displayName, avatar and chat_ready unchanged, and     *)
(* ends with no send awaited.                                              *)
C18_PollOnlyReads ==
    [][\A s \in Sessions :
          ChatRunStep(s) =>
             \A usersOk, msgsOk \in BOOLEAN :
                Run(s, None, usersOk, msgsOk) =>
                   /\ Messages' = Messages
                   /\ Users' = Users
                   /\ session_state' = session_state
                   /\ pc'[s] = "idle"
      ]_vars

\* a session whose one send has committed has just had a run that lists the
\* message: the collection still holds that one message of the session
C18_Witness ==
    \E s \in Sessions :
       /\ runner = s
       /\ pc[s] = "idle"
       /\ shown = {}
       /\ AllCommitted
       /\ \E i \in 1..Len(messages) : messages[i].user_id = user_id[s]
       /\ Cardinality({d \in Messages : d.user_id = user_id[s]}) = 1

(* C19: no step of any client removes or changes a committed Message       *)
(* Record, and what a successful list() returns before a step is a prefix  *)
(* of what it returns after the step; so of two successful list() calls    *)
(* the earlier result is a prefix of the later one.                        *)
C19_AppendOnly ==
    [][/\ \A e \in Messages : e.timestamp # NoTs => e \in Messages'
       /\ \/ Messages' = Messages
          \/ IsPrefix(load_messages(TRUE),
                      SelectValid(OrderByTimestamp(Messages')))
       /\ \A t \in Sessions :
             ListStep(t) => messages' = load_messages(TRUE)
      ]_vars

\* a list() has returned two messages of one session: the list of its first
\* message alone has grown at the end
C19_Witness ==
    /\ runner # NoSession
    /\ Len(messages) = 2
    /\ messages[1].user_id = messages[2].user_id
    /\ messages[1].timestamp < messages[2].timestamp

(* C20: a Joined session stays Joined and keeps its displayName and        *)
(* avatar in every step; after every step a session that is Joined (its    *)
(* chat_ready set, no profile write awaited) has a profile record keyed by *)
(* its userId that carries its displayName and avatar, and all Message     *)
(* Records of one userId carry the same displayName and the same avatar.   *)
C20_JoinedForGood ==
    [][/\ \A s \in Sessions :
             Joined(s) =>
                /\ chat_ready'[s] /\ pc'[s] # "joining"
                /\ display_name'[s] = display_name[s]
                /\ avatar'[s] = avatar[s]
       /\ \A s \in Sessions :
             (chat_ready'[s] /\ pc'[s] # "joining") =>
                \E u \in Users' :
                   /\ u.id = user_id'[s]
                   /\ u.user_id = user_id'[s]
                   /\ u.display_name = display_name'[s]
                   /\ u.avatar = avatar'[s]
       /\ \A d, e \in Messages' :
             d.user_id = e.user_id =>
                d.display_name = e.display_name /\ d.avatar = e.avatar
      ]_vars

\* a session whose first join failed has joined under another name and has
\* sent two messages, both under the name of its profile
C20_Witness ==
    \E s \in Sessions :
       /\ chat_ready[s]
       /\ pc[s] = "idle"
       /\ \E d, e \in Messages :
             /\ d # e
             /\ d.user_id = user_id[s] /\ e.user_id = user_id[s]
             /\ d.timestamp # NoTs /\ e.timestamp # NoTs
       /\ \E i \in 1..Len(cache.value) :
             /\ cache.value[i].user_id = user_id[s]
             /\ cache.value[i].display_name # display_name[s]

====
